---- MODULE Spec2Model ----
(***************************************************************************)
(* ShockNotebookManager (IPython/frontend/html/notebook/shocknbmanager.py):*)
(* a notebook manager that keeps an in-memory index (self.mapping,         *)
(* self.shock_map) over an append-only SHOCK object store.                 *)
(*                                                                         *)
(* State: the store's nodes, each manager instance's mapping, the instance *)
(* and class level shock_map dictionaries, the wall clock, and a record of *)
(* the last call (its arguments, the requests it sent and its outcome).    *)
(***************************************************************************)
EXTENDS Integers, Sequences, FiniteSets, TLC

\* ------------------------------------------------------------------ bounds
MaxIds      == 2    \* notebook ids (uuids) are 1..MaxIds
MaxName     == 2    \* notebook names are 1..MaxName, ordered as the strings are
MaxTime     == 1    \* the wall clock runs over 0..MaxTime ticks
SubTicks    == 2    \* clock ticks per second (the microsecond field of a datetime)
MaxStore    == 2    \* nodes the store holds at most
MaxInit     == 2    \* nodes other clients left in the store (StoreSpec's Init)
MaxDup      == 1    \* nodes a listing may repeat
MaxBody     == 1    \* notebook bodies (the cells) are 1..MaxBody

UUIDs  == 1..MaxIds
Names  == 1..MaxName
Times  == 0..MaxTime
Insts  == {1, 2}                 \* two manager objects of one process

\* ------------------------------------------------------- strings and time
\* datetime.isoformat(): 'YYYY-MM-DDTHH:MM:SS' with '.ffffff' appended only
\* when the microsecond field is not zero.  A string is a sequence of fields.
isoformat(t) ==
    IF t % SubTicks = 0 THEN << t \div SubTicks >>
                        ELSE << t \div SubTicks, t % SubTicks >>

\* dateutil.parser.parse() of such a string: the datetime it denotes.
parse(s) == s[1] * SubTicks + (IF Len(s) > 1 THEN s[2] ELSE 0)

\* Python's < on strings: lexicographic, a proper prefix is smaller.  The
\* empty sequence stands for a falsy 'created' (None or ''), which Python 2
\* orders below every non-empty string.
RECURSIVE StrLess(_, _)
StrLess(a, b) ==
    IF a = << >> THEN b # << >>
    ELSE IF b = << >> THEN FALSE
    ELSE IF a[1] # b[1] THEN a[1] < b[1]
    ELSE StrLess(Tail(a), Tail(b))

Falsy == << >>

\* ------------------------------------------------------------ dictionaries
EmptyDict == [k \in {} |-> 0]
DictSet(d, k, v) == [x \in (DOMAIN d) \cup {k} |-> IF x = k THEN v ELSE d[x]]
DictDel(d, k)    == [x \in (DOMAIN d) \ {k} |-> d[x]]

Range(s) == {s[k] : k \in DOMAIN s}
Perms(S) == {q \in [1..Cardinality(S) -> S] : Range(q) = S}

\* ------------------------------------------------------------- exceptions
NoExc             == [type |-> "none", status |-> 0]
HTTPError(status) == [type |-> "web.HTTPError", status |-> status]
RequestsHTTPError == [type |-> "requests.HTTPError", status |-> 0]
UnboundLocalError == [type |-> "UnboundLocalError", status |-> 0]
KeyError          == [type |-> "KeyError", status |-> 0]

\* ------------------------------------------------------------------ state
VARIABLES
    store,        \* the SHOCK server's nodes, in creation order: [node, data]
    shock_user,   \* the configured shock_user ('' when none is configured)
    mapping,      \* mapping[i]: self.mapping of manager i, notebook_id -> name
    has_own,      \* has_own[i]: manager i has an instance attribute shock_map
    own_shock,    \* own_shock[i]: that instance attribute, notebook_id -> node
    cls_shock,    \* the class attribute ShockNotebookManager.shock_map
    now,          \* the wall clock, datetime.datetime.now()
    last          \* the last call: its arguments, requests and outcome

vars == << store, shock_user, mapping, has_own, own_shock, cls_shock,
           now, last >>

\* self.shock_map as manager i reads it: the instance attribute when one
\* was assigned (line 50), the class attribute of line 40 otherwise.
shock_map(i) == IF has_own[i] THEN own_shock[i] ELSE cls_shock

\* ------------------------------------------------------- notebooks, nodes
\* A dictionary of node attributes or notebook metadata; a key in `keys`
\* is present, the others are absent.
MkAttrs(keys, name, created, user, uuid) ==
    [k \in keys |->
        CASE k = "name"    -> name
          [] k = "created" -> created
          [] k = "user"    -> user
          [] k = "type"    -> "ipynb"
          [] k = "uuid"    -> uuid
          [] OTHER         -> TRUE]

StampedKeys == {"name", "created", "user", "type", "uuid"}

\* current.writes(nb, u'json') and current.reads(data, u'json'): the JSON
\* text of a notebook, and the notebook a JSON text denotes.
writes(nb)   == << "nbformat", nb.metadata, nb.body >>
Readable(data) == Len(data) = 3 /\ data[1] = "nbformat"
reads(data)  == [metadata |-> data[2], body |-> data[3]]

Garbage == << "garbage" >>

MkNode(id, size, attributes) ==
    [id |-> id, file |-> [size |-> size], attributes |-> attributes]

\* --------------------------------------------------------- the HTTP layer
\* What requests.get / requests.post hands back: `raises` when the call
\* itself raises, else ok (status < 400), text (the body) and json (the
\* body parsed; isdict is FALSE when it is no JSON object).
NoJson == [isdict |-> FALSE, keys |-> {}, S |-> 0, E |-> "", D |-> << >>]
Envelope(keys, S, E, D) ==
    [isdict |-> TRUE, keys |-> keys, S |-> S, E |-> E, D |-> D]
Response(raises, ok, text, json) ==
    [raises |-> raises, ok |-> ok, text |-> text, json |-> json]

Unreachable == Response(TRUE, FALSE, << >>, NoJson)
HttpFailure == Response(FALSE, FALSE, << "error page" >>, NoJson)
EmptyBody   == Response(FALSE, TRUE, << >>, NoJson)
JsonBody(json) == Response(FALSE, TRUE, << "json" >>, json)

SDE == {"S", "D", "E"}

Raise(exc)  == [exc |-> exc, val |-> << >>]
Return(val) == [exc |-> NoExc, val |-> val]

\* The check of lines 155-156.  Its raise formats `e`, a local that is only
\* bound by the except clause of line 149, so the statement raises
\* UnboundLocalError instead of web.HTTPError(415).
getShockMalformed == UnboundLocalError

getShock(rget, format) ==
    IF rget.raises THEN Raise(HTTPError(400))
    ELSE IF ~(rget.ok /\ rget.text # << >>) THEN
        \* rget.raise_for_status() raises for a status >= 400, else is None
        Raise(IF rget.ok THEN HTTPError(400) ELSE RequestsHTTPError)
    ELSE IF format = "json" THEN
        LET rj == rget.json IN
        IF ~(rj.isdict /\ rj.keys # {} /\ SDE \subseteq rj.keys)
            THEN Raise(getShockMalformed)
        ELSE IF rj.E # "" THEN Raise(HTTPError(rj.S))
        ELSE Return(rj.D)
    ELSE Return(rget.text)

postShock(rpost) ==
    IF rpost.raises THEN Raise(HTTPError(400))
    ELSE LET rj == rpost.json IN
        IF ~(rpost.ok /\ rj.isdict /\ rj.keys # {} /\ SDE \subseteq rj.keys)
            THEN Raise(IF rpost.ok THEN HTTPError(400) ELSE RequestsHTTPError)
        ELSE IF rj.E # "" THEN Raise(HTTPError(rj.S))
        ELSE Return(rj.D)

\* ------------------------------------------------------ the SHOCK server
\* GET /node?query&type=ipynb[&user=...]: the nodes the query matches.
Matches(node, user) ==
    /\ node.attributes.type = "ipynb"
    /\ (user = "" \/ node.attributes.user = user)

Visible(st, user) ==
    {st[k].node : k \in {j \in 1..Len(st) : Matches(st[j].node, user)}}

\* The server lists the matching nodes in any order and may repeat up to
\* `dup` of them.
Listings(S, dup) ==
    UNION {{q \in [1..n -> S] : Range(q) = S} :
             n \in Cardinality(S)..(Cardinality(S) + dup)}

NullData      == [null |-> TRUE,  nodes |-> << >>]
ListData(q)   == [null |-> FALSE, nodes |-> q]

StoreStatus == {500}

\* Every answer the server may give to the query of line 56.
QueryResponses(st, user, dup) ==
    LET S     == Visible(st, user)
        datas == {ListData(q) : q \in Listings(S, dup)}
                      \cup (IF S = {} THEN {NullData} ELSE {})
    IN  {Unreachable, HttpFailure, EmptyBody, JsonBody(NoJson)}
        \cup {JsonBody(Envelope(SDE, 200, "", d)) : d \in datas}
        \cup {JsonBody(Envelope({"S", "D"}, 200, "", d)) : d \in datas}
        \cup {JsonBody(Envelope(SDE, s, "err", NullData)) : s \in StoreStatus}

\* -------------------------------------------------- load_notebook_names
\* Line 60 without its test for 'deleted'.
SurvivesIgnoringDeleted(node) == node.file.size # 0

\* Line 60: a node with no file or tagged 'deleted' is skipped.
Survives(node) ==
    ~((node.file.size = 0) \/ ("deleted" \in DOMAIN node.attributes))

\* nb_vers[uuid] after the loop of lines 59-62, in listing order.
nb_vers(listing, uuid) ==
    SelectSeq(listing, LAMBDA n : Survives(n) /\ n.attributes.uuid = uuid)

nb_vers_keys(listing) ==
    {listing[k].attributes.uuid : k \in {j \in 1..Len(listing) : Survives(listing[j])}}

\* sorted(nodes, key=created, reverse=True): a stable sort, so nodes with
\* equal keys keep their listing order.
RECURSIVE InsertDesc(_, _)
InsertDesc(n, s) ==
    IF s = << >> THEN << n >>
    ELSE IF StrLess(s[1].attributes.created, n.attributes.created)
        THEN << n >> \o s
        ELSE << s[1] >> \o InsertDesc(n, Tail(s))

RECURSIVE sorted_created_reverse(_)
sorted_created_reverse(nodes) ==
    IF nodes = << >> THEN << >>
    ELSE InsertDesc(nodes[Len(nodes)],
                    sorted_created_reverse(SubSeq(nodes, 1, Len(nodes) - 1)))

\* The key function of line 65 raises KeyError on a node with no 'created'.
HasCreated(nodes) ==
    \A k \in 1..Len(nodes) : "created" \in DOMAIN nodes[k].attributes

\* The loop of lines 64-67 over nb_vers in the dictionary's order `order`:
\* the entries assigned so far stay when the key function raises.
RECURSIVE LoadLoop(_, _, _, _)
LoadLoop(order, listing, m, sm) ==
    IF Len(order) = 0 THEN [mapping |-> m, shock_map |-> sm, exc |-> NoExc]
    ELSE LET uuid  == order[1]
             group == nb_vers(listing, uuid)
         IN  IF ~HasCreated(group)
                THEN [mapping |-> m, shock_map |-> sm, exc |-> KeyError]
                ELSE LET nodes == sorted_created_reverse(group)
                     IN  LoadLoop(SubSeq(order, 2, Len(order)), listing,
                                  DictSet(m, uuid, nodes[1].attributes.name),
                                  DictSet(sm, uuid, nodes[1]))

\* Lines 49-50 run before the query: both dictionaries start empty, and
\* are what is left when getShock raises.
LoadStart == [mapping |-> EmptyDict, shock_map |-> EmptyDict]

\* Lines 58-59 without the test for None: iterating None raises.
TypeError == [type |-> "TypeError", status |-> 0]
QueryNodesUnguarded(query_res) ==
    IF query_res.null THEN Raise(TypeError) ELSE Return(query_res.nodes)

\* Line 58: `if query_res is not None` guards the loop over the nodes.
QueryNodes(query_res) ==
    IF query_res.null THEN Return(<< >>) ELSE Return(query_res.nodes)

NoNb   == [metadata |-> EmptyDict, body |-> 0]
NoRead == [last_modified |-> [type |-> "none", value |-> 0], nb |-> NoNb]

\* The last call.  op and inst name the method and the manager; id is the
\* notebook_id argument (<< >> for None); exc is what the call raised
\* (NoExc: it returned); reqs are the requests it sent; ret_* is what it
\* returned.  Of a load: noE, the server's envelope lacked the 'E' key, and
\* cexc, what getShock raised then; zero, the query succeeded with no node;
\* after_delete, the id that the call just before, a delete_notebook of the
\* same manager, removed.  Of a write: has_name, the notebook had a name;
\* nb, the notebook as stamped and sent; stamp, the datetime of line 118;
\* echo, the server echoed the attributes; noE and cexc as for a load, of
\* postShock.  Of a read: clock, the time of the call; fetched, the download
\* returned text that decoded as a notebook; after_write, the write of the
\* same manager that was the call just before.  Of a load taken line by
\* line: prior, the dictionaries as the call found them; pending, the nodes
\* the query returned.
BlankLast ==
    [op |-> "init", inst |-> 1, id |-> << >>, nb |-> NoNb,
     exc |-> NoExc, noE |-> FALSE, cexc |-> NoExc, zero |-> FALSE,
     reqs |-> << >>, has_name |-> FALSE,
     ret_list |-> << >>, ret_bool |-> FALSE, ret_id |-> << >>,
     ret_read |-> NoRead, stamp |-> << >>, echo |-> FALSE, clock |-> << >>,
     after_delete |-> << >>, after_write |-> << >>, fetched |-> FALSE,
     prior |-> << >>, pending |-> << >>]

\* The envelope came as a JSON object without the 'E' key.
LacksE(rsp) == ~rsp.raises /\ rsp.ok /\ rsp.json.isdict /\ "E" \notin rsp.json.keys

\* The query was answered with a well-formed envelope, no error and no node.
ZeroObjects(rsp) ==
    /\ ~rsp.raises /\ rsp.ok /\ rsp.json.isdict
    /\ SDE \subseteq rsp.json.keys /\ rsp.json.E = ""
    /\ (rsp.json.D.null \/ Len(rsp.json.D.nodes) = 0)

\* The requests of a load: the one getShock call of line 56, which makes
\* the one requests.get of line 148.
LoadRequests == << "query" >>

load_notebook_names(i, dup) ==
    \E rget \in QueryResponses(store, shock_user, dup) :
        LET q       == getShock(rget, "json")
            it      == IF q.exc = NoExc THEN QueryNodes(q.val) ELSE q
            listing == IF it.exc = NoExc THEN it.val ELSE << >>
        IN  \E order \in Perms(nb_vers_keys(listing)) :
            LET r == IF it.exc # NoExc
                        THEN [mapping |-> LoadStart.mapping,
                              shock_map |-> LoadStart.shock_map, exc |-> it.exc]
                        ELSE LoadLoop(order, listing, LoadStart.mapping,
                                      LoadStart.shock_map)
            IN  /\ mapping'   = [mapping EXCEPT ![i] = r.mapping]
                /\ has_own'   = [has_own EXCEPT ![i] = TRUE]
                /\ own_shock' = [own_shock EXCEPT ![i] = r.shock_map]
                /\ last' = [BlankLast EXCEPT !.op = "load", !.inst = i,
                               !.exc = r.exc,
                               !.reqs = LoadRequests, !.noE = LacksE(rget),
                               !.cexc = IF LacksE(rget) THEN q.exc ELSE NoExc,
                               !.zero = ZeroObjects(rget),
                               !.after_delete =
                                   IF last.op = "delete" /\ last.inst = i
                                         /\ last.exc = NoExc
                                      THEN last.id ELSE << >>]
                /\ UNCHANGED << store, shock_user, cls_shock, now >>

\* load_notebook_names line by line, as a thread that reads the dictionaries
\* while it runs sees it.  op is "load_clear" after lines 49-50,
\* "load_query" after lines 51-62 and between the iterations of the loop of
\* lines 64-67, and "load" when the call has returned or raised.
Loading == last.op \in {"load_clear", "load_query"}

load_clear(i) ==
    /\ ~Loading
    /\ mapping'   = [mapping EXCEPT ![i] = LoadStart.mapping]
    /\ has_own'   = [has_own EXCEPT ![i] = TRUE]
    /\ own_shock' = [own_shock EXCEPT ![i] = LoadStart.shock_map]
    /\ last' = [BlankLast EXCEPT !.op = "load_clear", !.inst = i,
                   !.prior = << [mapping |-> mapping[i],
                                 shock_map |-> shock_map(i)] >>]
    /\ UNCHANGED << store, shock_user, cls_shock, now >>

load_query(i, dup) ==
    /\ last.op = "load_clear" /\ last.inst = i
    /\ \E rget \in QueryResponses(store, shock_user, dup) :
        LET q       == getShock(rget, "json")
            it      == IF q.exc = NoExc THEN QueryNodes(q.val) ELSE q
            listing == IF it.exc = NoExc THEN it.val ELSE << >>
            done    == it.exc # NoExc \/ nb_vers_keys(listing) = {}
        IN  last' = [last EXCEPT !.op = IF done THEN "load" ELSE "load_query",
                                 !.exc = it.exc, !.reqs = LoadRequests,
                                 !.pending = listing]
    /\ UNCHANGED << store, shock_user, mapping, has_own, own_shock,
                    cls_shock, now >>

load_entry(i) ==
    /\ last.op = "load_query" /\ last.inst = i
    /\ \E uuid \in nb_vers_keys(last.pending) \ DOMAIN mapping[i] :
        LET r    == LoadLoop(<< uuid >>, last.pending, mapping[i], shock_map(i))
            done == \/ r.exc # NoExc
                    \/ nb_vers_keys(last.pending) \subseteq DOMAIN r.mapping
        IN  /\ mapping'   = [mapping EXCEPT ![i] = r.mapping]
            /\ own_shock' = [own_shock EXCEPT ![i] = r.shock_map]
            /\ last' = [last EXCEPT !.op = IF done THEN "load" ELSE "load_query",
                                     !.exc = r.exc]
    /\ UNCHANGED << store, shock_user, has_own, cls_shock, now >>

\* ------------------------------------------------------- list_notebooks
\* sorted(data, key=name): a stable sort of the dictionary's items.
RECURSIVE InsertByName(_, _)
InsertByName(item, s) ==
    IF s = << >> THEN << item >>
    ELSE IF item.name < s[1].name
        THEN << item >> \o s
        ELSE << s[1] >> \o InsertByName(item, Tail(s))

\* Line 74 left out: the items in the dictionary's order.
unsorted(data) == data

RECURSIVE sorted_by_name(_)
sorted_by_name(data) ==
    IF Len(data) = 0 THEN << >>
    ELSE InsertByName(data[Len(data)],
                      sorted_by_name(SubSeq(data, 1, Len(data) - 1)))

\* self.mapping.items() yields the entries in the dictionary's own order,
\* which depends on the history of insertions and deletions: `order`.
list_notebooks(i) ==
    \E order \in Perms(DOMAIN mapping[i]) :
        LET data == [k \in 1..Len(order) |->
                        [notebook_id |-> order[k], name |-> mapping[i][order[k]]]]
        IN  /\ last' = [BlankLast EXCEPT !.op = "list", !.inst = i,
                           !.ret_list = sorted_by_name(data)]
            /\ UNCHANGED << store, shock_user, mapping, has_own, own_shock,
                            cls_shock, now >>

\* ------------------------------------------------------ notebook_exists
exists(i, notebook_id) ==
    (notebook_id \in DOMAIN mapping[i]) /\ (notebook_id \in DOMAIN shock_map(i))

notebook_exists(i) ==
    \E notebook_id \in UUIDs :
        /\ last' = [BlankLast EXCEPT !.op = "exists", !.inst = i,
                       !.id = << notebook_id >>,
                       !.ret_bool = exists(i, notebook_id)]
        /\ UNCHANGED << store, shock_user, mapping, has_own, own_shock,
                        cls_shock, now >>

\* ------------------------------------------- delete_notebook(_id)
\* Lines 81-82 on the two dictionaries.
\* Lines 81-82 left out.
keep_notebook_id(d, notebook_id) == d

delete_notebook_id(d, notebook_id) == DictDel(d, notebook_id)

delete_notebook(i) ==
    \E notebook_id \in UUIDs :
        LET found == exists(i, notebook_id)
            sm    == IF found THEN delete_notebook_id(shock_map(i), notebook_id)
                              ELSE shock_map(i)
        IN  /\ mapping' = [mapping EXCEPT ![i] =
                             IF found THEN delete_notebook_id(@, notebook_id) ELSE @]
            /\ own_shock' = IF has_own[i] THEN [own_shock EXCEPT ![i] = sm]
                                          ELSE own_shock
            /\ cls_shock' = IF has_own[i] THEN cls_shock ELSE sm
            /\ last' = [BlankLast EXCEPT !.op = "delete", !.inst = i,
                           !.id = << notebook_id >>,
                           !.exc = IF found THEN NoExc ELSE HTTPError(404)]
            /\ UNCHANGED << store, shock_user, has_own, now >>

\* -------------------------------------------------- read_notebook_object
\* GET /node/<id>?download: the server streams the node's file.
DownloadResponses(st, node_id) ==
    {Unreachable, HttpFailure, EmptyBody,
     Response(FALSE, TRUE, st[node_id].data, NoJson)}

\* Line 106: the parsed 'created', or the clock's isoformat() text when
\* 'created' is falsy.
last_modified(dt, clock) ==
    IF dt # Falsy THEN [type |-> "datetime", value |-> parse(dt)]
                  ELSE [type |-> "str", value |-> isoformat(clock)]

\* Line 105 subscripts the attributes: KeyError when 'created' is no key.
ReadCreated(node, nb, clock) ==
    IF "created" \notin DOMAIN node.attributes
        THEN [exc |-> KeyError, ret |-> NoRead]
        ELSE [exc |-> NoExc,
              ret |-> [last_modified |-> last_modified(node.attributes.created, clock),
                       nb |-> nb]]

\* The node whose file line 96 asks for.
ReadNodeId(sm, notebook_id) == sm[notebook_id].id

\* Line 97 fetching before the test of line 93.
ReadRequestsEager(found) == << "download" >>

\* The requests of a read: none when line 94 raises, else the one getShock
\* call of line 97.
ReadRequests(found) == IF found THEN << "download" >> ELSE << >>

read_notebook_object(i) ==
    \E notebook_id \in UUIDs :
        /\ UNCHANGED << store, shock_user, mapping, has_own, own_shock,
                        cls_shock, now >>
        /\ IF ~exists(i, notebook_id)
            THEN last' = [BlankLast EXCEPT !.op = "read", !.inst = i,
                             !.id = << notebook_id >>, !.exc = HTTPError(404),
                             !.reqs = ReadRequests(FALSE)]
            ELSE \E rget \in DownloadResponses(store,
                                 ReadNodeId(shock_map(i), notebook_id)) :
                LET g == getShock(rget, "data")
                    r == IF g.exc # NoExc \/ ~Readable(g.val)
                            THEN [exc |-> HTTPError(500), ret |-> NoRead]
                            ELSE ReadCreated(shock_map(i)[notebook_id],
                                             reads(g.val), now)
                IN  last' = [BlankLast EXCEPT !.op = "read", !.inst = i,
                                !.id = << notebook_id >>, !.exc = r.exc,
                                !.reqs = ReadRequests(TRUE), !.ret_read = r.ret,
                                !.clock = << now >>,
                                !.fetched = (g.exc = NoExc /\ Readable(g.val)),
                                !.after_write =
                                    IF last.op = "write" /\ last.inst = i
                                          /\ last.exc = NoExc
                                       THEN << [id |-> last.ret_id[1],
                                                given |-> last.id # << >>,
                                                nb |-> last.nb,
                                                stamp |-> last.stamp[1],
                                                echo |-> last.echo] >>
                                       ELSE << >>]

\* ------------------------------------------------- write_notebook_object
Bodies == 1..MaxBody

\* The notebooks a caller may hand in: with a name in the metadata or
\* without one.
NotebookInputs ==
    {[metadata |-> MkAttrs(keys, n, Falsy, "", 1), body |-> b] :
        keys \in {{}, {"name"}}, n \in Names, b \in Bodies}

\* NotebookManager.new_notebook_id(name): a uuid4, entered into self.mapping
\* under the name.  uuid4 does not repeat: the id is one that no dictionary
\* and no node of the store mentions (FreshIds).
new_notebook_id(m, notebook_id, name) == DictSet(m, notebook_id, name)

StoreUuids(st) == {st[k].node.attributes.uuid : k \in 1..Len(st)}

FreshIds ==
    UUIDs \ (StoreUuids(store)
                    \cup UNION {DOMAIN mapping[j] : j \in Insts}
                    \cup UNION {DOMAIN shock_map(j) : j \in Insts})

\* Line 119 without its fallback to 'public'.
StampConfiguredUser(metadata, clock, user, notebook_id) ==
    MkAttrs((DOMAIN metadata) \cup StampedKeys, metadata.name,
            isoformat(clock), user, notebook_id)

\* Lines 118-121: the metadata as stamped before it is sent.
Stamp(metadata, clock, user, notebook_id) ==
    MkAttrs((DOMAIN metadata) \cup StampedKeys, metadata.name,
            isoformat(clock), IF user # "" THEN user ELSE "public", notebook_id)

\* Line 124.
\* Line 124 never raising.
InMappingAlways(m, notebook_id) == TRUE

InMapping(m, notebook_id) == notebook_id \in DOMAIN m

\* Lines 134-135.
WriteMapping(m, notebook_id, new_name) == DictSet(m, notebook_id, new_name)
\* Line 135 left out, and line 135 only inserting.
WriteShockMapSkipped(sm, notebook_id, shock_node) == sm
WriteShockMapInsertOnly(sm, notebook_id, shock_node) ==
    IF notebook_id \in DOMAIN sm THEN sm ELSE DictSet(sm, notebook_id, shock_node)

WriteShockMap(sm, notebook_id, shock_node) == DictSet(sm, notebook_id, shock_node)

\* The answers the server may give to the POST of line 168 that would
\* create `node`: "created" echoes the node, "created_partial" echoes it
\* without the 'created' attribute.
FailureShapes == {"unreachable", "http_failure", "no_E", "store_error"}
HonestShapes  == FailureShapes \cup {"created"}
EchoShapes    == {"created", "created_partial"}

PartialEcho(node) ==
    MkNode(node.id, node.file.size,
           [k \in (DOMAIN node.attributes) \ {"created"} |-> node.attributes[k]])

PostResponse(shape, node) ==
    CASE shape = "unreachable"     -> Unreachable
      [] shape = "http_failure"    -> HttpFailure
      [] shape = "no_E"            -> JsonBody(Envelope({"S", "D"}, 200, "", << >>))
      [] shape = "store_error"     -> JsonBody(Envelope(SDE, 500, "err", << >>))
      [] shape = "created"         -> JsonBody(Envelope(SDE, 200, "", node))
      [] OTHER                     -> JsonBody(Envelope(SDE, 200, "", PartialEcho(node)))

Creates(shape) == shape \in {"created", "created_partial"}

\* The requests of a write: none when line 114 or 125 raises, else the one
\* postShock call of line 130, which makes the one requests.post of line 168.
WriteRequests(found) == IF found THEN << "create" >> ELSE << >>

write_notebook_object(i, shapes) ==
    \E nb \in NotebookInputs, arg \in {<< >>} \cup {<< u >> : u \in UUIDs},
       fresh \in UUIDs, shape \in shapes :
        LET has_name    == "name" \in DOMAIN nb.metadata
            minting     == has_name /\ arg = << >>
            notebook_id == IF arg = << >> THEN fresh ELSE arg[1]
            new_name    == nb.metadata.name
            m1          == IF minting
                              THEN new_notebook_id(mapping[i], notebook_id, new_name)
                              ELSE mapping[i]
            found       == has_name /\ InMapping(m1, notebook_id)
            stamped     == [metadata |-> Stamp(nb.metadata, now, shock_user, notebook_id),
                            body |-> nb.body]
            data        == writes(stamped)
            node        == MkNode(Len(store) + 1, Len(data), stamped.metadata)
            rpost       == PostResponse(shape, node)
            p           == postShock(rpost)
            done        == found /\ p.exc = NoExc
            sm          == IF done THEN WriteShockMap(shock_map(i), notebook_id, p.val)
                                   ELSE shock_map(i)
        IN  /\ IF minting THEN fresh \in FreshIds ELSE fresh = 1
            /\ IF found THEN (Creates(shape) => Len(store) < MaxStore)
                        ELSE shape = CHOOSE x \in shapes : TRUE
            /\ mapping' = [mapping EXCEPT ![i] =
                             IF done THEN WriteMapping(m1, notebook_id, new_name) ELSE m1]
            /\ own_shock' = IF has_own[i] THEN [own_shock EXCEPT ![i] = sm]
                                          ELSE own_shock
            /\ cls_shock' = IF has_own[i] THEN cls_shock ELSE sm
            /\ store' = IF found /\ Creates(shape)
                           THEN Append(store, [node |-> node, data |-> data])
                           ELSE store
            /\ last' = [BlankLast EXCEPT !.op = "write", !.inst = i, !.id = arg,
                           !.nb = IF done THEN stamped ELSE NoNb,
                           !.exc = IF ~has_name THEN HTTPError(400)
                                   ELSE IF ~found THEN HTTPError(404)
                                   ELSE IF p.exc # NoExc THEN HTTPError(400)
                                   ELSE NoExc,
                           !.reqs = WriteRequests(found),
                           !.ret_id = IF done THEN << notebook_id >> ELSE << >>,
                           !.stamp = IF done THEN << now >> ELSE << >>,
                           !.has_name = has_name,
                           !.noE = found /\ LacksE(rpost),
                           !.cexc = IF found /\ LacksE(rpost) THEN p.exc ELSE NoExc,
                           !.echo = done /\ shape = "created"]
            /\ UNCHANGED << shock_user, has_own, now >>

\* --------------------------------------------------------- environment
\* The nodes other clients of the same SHOCK server have uploaded.  A
\* 'created' option is << >> (no such key) or << text >>.
CreatedOptions == {<< >>, << Falsy >>} \cup {<< isoformat(t) >> : t \in Times}
ForeignUsers   == {"public", "bob"}

ForeignAttrs(uuid, name, user, copt, deleted) ==
    MkAttrs({"name", "user", "type", "uuid"}
               \cup (IF copt # << >> THEN {"created"} ELSE {})
               \cup (IF deleted THEN {"deleted"} ELSE {}),
            name, IF copt # << >> THEN copt[1] ELSE Falsy, user, uuid)

\* An upload by shape: "file" a notebook, "garbage" no notebook, "empty"
\* no file at all (size 0).
ForeignData(shape, attributes) ==
    CASE shape = "empty"   -> << >>
      [] shape = "garbage" -> Garbage
      [] OTHER             -> writes([metadata |-> attributes, body |-> 1])

\* How many of an upload's properties differ from the plain one's (name 1,
\* user bob, created at time 0, not deleted, a notebook file).
Deviations(n, w, c, d, x) ==
    (IF n # 1 THEN 1 ELSE 0) + (IF w # "bob" THEN 1 ELSE 0)
  + (IF c # << isoformat(0) >> THEN 1 ELSE 0) + (IF d THEN 1 ELSE 0)
  + (IF x # "file" THEN 1 ELSE 0)

ForeignUploads ==
    {[attributes |-> ForeignAttrs(t[1], t[2], t[3], t[4], t[5]),
      data |-> ForeignData(t[6], ForeignAttrs(t[1], t[2], t[3], t[4], t[5]))] :
        t \in {u \in UUIDs \X Names \X ForeignUsers \X CreatedOptions
                      \X BOOLEAN \X {"file", "garbage", "empty"} :
                 Deviations(u[2], u[3], u[4], u[5], u[6]) <= 1}}

Upload(st, f) ==
    Append(st, [node |-> MkNode(Len(st) + 1, Len(f.data), f.attributes),
                data |-> f.data])

RECURSIVE UploadAll(_)
UploadAll(fs) ==
    IF Len(fs) = 0 THEN << >>
    ELSE Upload(UploadAll(SubSeq(fs, 1, Len(fs) - 1)), fs[Len(fs)])

InitStores ==
    {UploadAll(fs) : fs \in UNION {[1..n -> ForeignUploads] : n \in 0..MaxInit}}

Tick ==
    /\ now < MaxTime
    /\ now' = now + 1
    /\ UNCHANGED << store, shock_user, mapping, has_own, own_shock, cls_shock,
                    last >>

\* ---------------------------------------------------------- specification
\* The managers as constructed: self.mapping is empty, shock_map is the
\* class attribute of line 40.
Constructed ==
    /\ shock_user \in {"", "bob"}
    /\ mapping = [i \in Insts |-> EmptyDict]
    /\ has_own = [i \in Insts |-> FALSE]
    /\ own_shock = [i \in Insts |-> EmptyDict]
    /\ cls_shock = EmptyDict
    /\ now = 0
    /\ last = BlankLast

\* One manager over a store that starts empty.
Init == store = << >> /\ Constructed

Manager(i) ==
    \/ load_notebook_names(i, 0)
    \/ list_notebooks(i)
    \/ notebook_exists(i)
    \/ read_notebook_object(i)
    \/ write_notebook_object(i, HonestShapes)
    \/ delete_notebook(i)

Next == Tick \/ Manager(1)

Spec == Init /\ [][Next]_vars

\* One manager over a store other clients have filled; it saves nothing.
StoreInit == store \in InitStores /\ Constructed

StoreNext ==
    \/ load_notebook_names(1, MaxDup)
    \/ list_notebooks(1)
    \/ notebook_exists(1)
    \/ read_notebook_object(1)
    \/ delete_notebook(1)

StoreSpec == StoreInit /\ [][StoreNext]_vars

\* One manager over a store that starts empty and whose server may leave
\* 'created' out of the node it echoes.
EchoNext ==
    \/ Tick
    \/ write_notebook_object(1, EchoShapes)
    \/ read_notebook_object(1)
    \/ notebook_exists(1)

EchoSpec == Init /\ [][EchoNext]_vars

\* One manager over a store other clients have written to, which it loads
\* and saves to.
MixNext ==
    \/ Tick
    \/ load_notebook_names(1, 0)
    \/ write_notebook_object(1, {"created"})
    \/ notebook_exists(1)

MixSpec == StoreInit /\ [][MixNext]_vars

\* Two managers of one process, configured with no shock_user, over a
\* store that starts empty.
TwoInit == Init /\ shock_user = ""

TwoNext ==
    \E i \in Insts :
        \/ load_notebook_names(i, 0)
        \/ write_notebook_object(i, {"created"})
        \/ delete_notebook(i)

TwoSpec == TwoInit /\ [][TwoNext]_vars

\* One manager that loads, line by line, from a store other clients have
\* filled.
RebuildNext ==
    \/ load_clear(1)
    \/ load_query(1, 0)
    \/ load_entry(1)

RebuildSpec == StoreInit /\ [][RebuildNext]_vars

\* ------------------------------------------------------------------ claims
\* Vocabulary shared by the claims.
Live(node) == node.file.size # 0 /\ "deleted" \notin DOMAIN node.attributes
StoreNodes == {store[k].node : k \in 1..Len(store)}
Listed     == Visible(store, shock_user)
LiveGroup(S, uuid) == {n \in S : Live(n) /\ n.attributes.uuid = uuid}

\* The errors of the specification, as the exceptions the code raises.
NotFound        == HTTPError(404)
InvalidDocument == HTTPError(400)
ConnectionError == HTTPError(400)
ProtocolError   == HTTPError(415)
ReadFailure     == HTTPError(500)

\* A call (not a tick of the clock) was just made.
Called(op) == last'.op = op /\ now' = now

\* shock_map and notebook_exists in the state a step leads to.
ShockMapAfter(i) == IF has_own'[i] THEN own_shock'[i] ELSE cls_shock'

ExistsAfter(i, notebook_id) ==
    /\ notebook_id \in DOMAIN mapping'[i]
    /\ notebook_id \in DOMAIN ShockMapAfter(i)

\* C1: after a successful load_notebook_names, whatever the order and the
\* repetitions of the listing, the mapping has exactly one entry per uuid
\* that has a listed node with a file and no 'deleted' attribute; the entry's
\* node is such a node of that uuid, no other such node of the uuid has a
\* greater 'created', and the entry's name is that node's name.
C1_RebuildPicksLatestSurvivor ==
    (last.op = "load" /\ last.exc = NoExc) =>
        LET i    == last.inst
            keys == {u \in UUIDs : LiveGroup(Listed, u) # {}}
        IN  /\ DOMAIN mapping[i] = keys
            /\ DOMAIN shock_map(i) = keys
            /\ \A u \in keys :
                /\ shock_map(i)[u] \in LiveGroup(Listed, u)
                /\ \A n \in LiveGroup(Listed, u) :
                      ~StrLess(shock_map(i)[u].attributes.created,
                               n.attributes.created)
                /\ mapping[i][u] = shock_map(i)[u].attributes.name

\* A load succeeded over listed nodes of one uuid of which one is newer than
\* another, or one is discarded.
C1_Witness ==
    /\ last.op = "load" /\ last.exc = NoExc
    /\ \E a, b \in Listed :
        /\ a.attributes.uuid = b.attributes.uuid
        /\ Live(a)
        /\ a.attributes.uuid \in DOMAIN mapping[1]
        /\ \/ ~Live(b)
           \/ StrLess(b.attributes.created, a.attributes.created)

\* C2: a load_notebook_names whose query fails leaves both dictionaries as
\* they were before the call.
C2_FailedRebuildKeepsMapping ==
    [][(Called("load") /\ last'.exc # NoExc /\ last'.exc # KeyError)
          => (mapping' = mapping
              /\ \A i \in Insts : ShockMapAfter(i) = shock_map(i))]_vars

\* C3: a write with no id never raises NotFound, and when it returns, the
\* id it returns was not in the mapping before the call and exists after it.
C3_NewDocumentIdentity ==
    [][(Called("write") /\ last'.id = << >>)
          => /\ last'.exc # NotFound
             /\ last'.exc = NoExc =>
                   /\ Len(last'.ret_id) = 1
                   /\ last'.ret_id[1] \notin DOMAIN mapping[last'.inst]
                   /\ last'.ret_id[1] \notin DOMAIN shock_map(last'.inst)
                   /\ ExistsAfter(last'.inst, last'.ret_id[1])]_vars

\* A write with no id returned while the mapping already held a notebook.
C3_Witness ==
    /\ last.op = "write" /\ last.id = << >> /\ last.exc = NoExc
    /\ Cardinality(DOMAIN mapping[1]) = 2
    /\ exists(1, last.ret_id[1])

\* C4: a delete_notebook of an existing id leaves the id not existing and
\* the store as it was; a load_notebook_names that is the next call and
\* succeeds has an entry for that id again when the store holds a node of
\* that uuid with a file and no 'deleted' attribute.
C4_DeleteIsLocalOnly ==
    [][/\ (Called("delete") /\ last'.exc = NoExc)
            => (~ExistsAfter(last'.inst, last'.id[1]) /\ store' = store)
       /\ (Called("load") /\ last'.exc = NoExc /\ last'.after_delete # << >>)
            => (LiveGroup(StoreNodes, last'.after_delete[1]) # {}
                  => ExistsAfter(last'.inst, last'.after_delete[1]))]_vars

\* A load, the call after a delete, brought the deleted notebook back.
C4_Witness ==
    /\ last.op = "load" /\ last.exc = NoExc /\ last.after_delete # << >>
    /\ exists(1, last.after_delete[1])

\* C5: a read that is the call after a successful write to a given id, by
\* the same manager and of the same id, with the node's attributes echoed,
\* returns when it succeeds the notebook as written and a last-modified
\* datetime not before the datetime stamped by the write.
C5_WriteReadRoundTrip ==
    (last.op = "read" /\ last.exc = NoExc /\ last.after_write # << >>) =>
        LET w == last.after_write[1]
        IN  (w.given /\ w.echo /\ last.id = << w.id >>) =>
                /\ last.ret_read.nb = w.nb
                /\ last.ret_read.last_modified.type = "datetime"
                /\ last.ret_read.last_modified.value >= w.stamp

\* A read returned right after a write that replaced an older node of the
\* same notebook, stamped at a time with a microsecond part.
C5_Witness ==
    /\ last.op = "read" /\ last.exc = NoExc /\ last.after_write # << >>
    /\ last.after_write[1].given /\ last.after_write[1].echo
    /\ last.id = << last.after_write[1].id >>
    /\ last.after_write[1].stamp % SubTicks # 0
    /\ Cardinality(LiveGroup(StoreNodes, last.id[1])) = 2

\* C6 as stated: a write to a given id that the mapping does not hold
\* raises NotFound, sends nothing and leaves mapping and store unchanged.
C6_AbsentIdIsNotFound ==
    [][(Called("write") /\ last'.id # << >>
          /\ last'.id[1] \notin DOMAIN mapping[last'.inst])
          => /\ last'.exc = NotFound
             /\ last'.reqs = << >>
             /\ mapping' = mapping
             /\ store' = store]_vars

\* C6 as amended: such a write raises NotFound when the notebook has a
\* name and InvalidDocument (400, 'Missing notebook name') when it has
\* none; either way it sends nothing and leaves mapping, shock_map and
\* store unchanged.
C6_AbsentIdFails ==
    [][(Called("write") /\ last'.id # << >>
          /\ last'.id[1] \notin DOMAIN mapping[last'.inst])
          => /\ last'.exc = (IF last'.has_name THEN NotFound ELSE InvalidDocument)
             /\ last'.reqs = << >>
             /\ mapping' = mapping
             /\ \A i \in Insts : ShockMapAfter(i) = shock_map(i)
             /\ store' = store]_vars

\* A named write to an id the mapping does not hold raised NotFound while
\* the mapping held another notebook.
C6_Witness ==
    /\ last.op = "write" /\ last.id # << >> /\ last.has_name
    /\ last.exc = NotFound
    /\ last.id[1] \notin DOMAIN mapping[1]
    /\ DOMAIN mapping[1] # {}

\* C7: when the server's envelope lacks the 'E' key, the client operation
\* (the query of a load, the create of a write) raises ProtocolError, which
\* is neither what an unreachable server raises nor a store error.
C7_MissingErrorFieldIsProtocolError ==
    last.noE => last.cexc = ProtocolError

\* C8: a load_notebook_names whose query is answered without error and
\* with no node (an empty or a null 'D') returns and leaves both
\* dictionaries empty.
C8_EmptyQueryIsEmptyMapping ==
    (last.op = "load" /\ last.zero) =>
        /\ last.exc = NoExc
        /\ mapping[last.inst] = EmptyDict
        /\ shock_map(last.inst) = EmptyDict

\* A load was answered with no node although the store holds some.
C8_Witness ==
    last.op = "load" /\ last.zero /\ last.exc = NoExc /\ Len(store) > 0

\* What list_notebooks returned has one item per entry of the mapping.
ListsMapping(data, m) ==
    /\ Len(data) = Cardinality(DOMAIN m)
    /\ {data[k].notebook_id : k \in 1..Len(data)} = DOMAIN m
    /\ \A k \in 1..Len(data) : data[k].name = m[data[k].notebook_id]

\* C9 as stated: list_notebooks returns one item per entry of the mapping,
\* by name ascending, items of equal name by notebook_id ascending.
C9_ListSortedByNameThenId ==
    last.op = "list" =>
        /\ ListsMapping(last.ret_list, mapping[last.inst])
        /\ \A j, k \in 1..Len(last.ret_list) :
              j < k =>
                \/ last.ret_list[j].name < last.ret_list[k].name
                \/ /\ last.ret_list[j].name = last.ret_list[k].name
                   /\ last.ret_list[j].notebook_id < last.ret_list[k].notebook_id

\* C9 as amended: list_notebooks returns one item per entry of the mapping,
\* by name ascending; the order of items of equal name is not fixed.
C9_ListSortedByName ==
    last.op = "list" =>
        /\ ListsMapping(last.ret_list, mapping[last.inst])
        /\ \A j, k \in 1..Len(last.ret_list) :
              j < k => last.ret_list[j].name <= last.ret_list[k].name

\* A list of two notebooks whose names are not in the order of their ids.
C9_Witness ==
    /\ last.op = "list" /\ Len(last.ret_list) = 2
    /\ last.ret_list[1].name < last.ret_list[2].name
    /\ last.ret_list[1].notebook_id > last.ret_list[2].notebook_id

\* C10: a read of an entry whose node has no 'created' (no such attribute,
\* or a null one) whose download and decoding succeed returns, with the
\* time of the call as last-modified.
NoCreated(node) ==
    \/ "created" \notin DOMAIN node.attributes
    \/ node.attributes.created = Falsy

C10_ReadWithoutCreatedFallsBack ==
    (/\ last.op = "read" /\ last.exc # NotFound /\ last.exc # ReadFailure
     /\ NoCreated(shock_map(last.inst)[last.id[1]]))
        => /\ last.exc = NoExc
           /\ last.ret_read.last_modified.value = isoformat(last.clock[1])
\* C11: a write that returns and replaces an entry gives the entry a node
\* whose 'created' is strictly later than the 'created' of the node the
\* entry had, also when that node was loaded from the store.
C11_ReplacementIsLater ==
    [][\A u \in UUIDs :
          (/\ Called("write") /\ last'.exc = NoExc /\ last'.ret_id = << u >>
           /\ exists(1, u) /\ last'.inst = 1)
             => StrLess(shock_map(1)[u].attributes.created,
                        ShockMapAfter(1)[u].attributes.created)]_vars
\* C12: a load sends exactly one query; a read sends one download, or
\* none when it raises NotFound; a write sends at most one create, and
\* exactly one when it returns; list, exists and delete send nothing.
C12_NoRetry ==
    /\ last.op = "load" => last.reqs = << "query" >>
    /\ last.op = "read" =>
          last.reqs = (IF last.exc = NotFound THEN << >> ELSE << "download" >>)
    /\ last.op = "write" =>
          /\ last.reqs \in {<< >>, << "create" >>}
          /\ last.exc = NoExc => last.reqs = << "create" >>
          /\ last.exc = NotFound => last.reqs = << >>
    /\ last.op \in {"list", "exists", "delete"} => last.reqs = << >>

\* A read whose one download failed raised ReadFailure.
C12_Witness ==
    last.op = "read" /\ last.exc = ReadFailure /\ last.reqs = << "download" >>
\* C13: a read raises NotFound exactly when the id is not in self.mapping,
\* and then sends nothing; a read of an id in self.mapping whose download
\* or decoding fails raises ReadFailure; a read changes no dictionary.
C13_ReadFailures ==
    [][Called("read") =>
          LET i == last'.inst
              u == last'.id[1]
          IN  /\ last'.exc = NotFound <=> u \notin DOMAIN mapping[i]
              /\ last'.exc = NotFound => last'.reqs = << >>
              /\ (u \in DOMAIN mapping[i] /\ ~last'.fetched)
                    => last'.exc = ReadFailure
              /\ mapping' = mapping
              /\ \A j \in Insts : ShockMapAfter(j) = shock_map(j)]_vars
\* C16: a write that raises, with an id or without one, leaves self.mapping
\* and self.shock_map as they were before the call.
C16_FailedWriteChangesNothing ==
    [][(Called("write") /\ last'.exc # NoExc)
          => /\ mapping' = mapping
             /\ \A j \in Insts : ShockMapAfter(j) = shock_map(j)]_vars
\* C14: a call on one manager leaves the other manager's self.mapping and
\* self.shock_map as they were, also before that manager's first load.
C14_InstancesDoNotInterfere ==
    [][\A i, j \in Insts :
          (i # j /\ last'.inst = i /\ last'.op # "init")
             => /\ mapping'[j] = mapping[j]
                /\ ShockMapAfter(j) = shock_map(j)]_vars
\* C15: while a load runs, and after a load that raised, the dictionaries
\* are the ones the load found: nothing a reader can see changes before the
\* query has returned and every entry is in place.
C15_RebuildIsAtomic ==
    (Loading \/ (last.op = "load" /\ last.exc # NoExc /\ last.prior # << >>))
        => /\ mapping[last.inst] = last.prior[1].mapping
           /\ shock_map(last.inst) = last.prior[1].shock_map
\* What a load_notebook_names that succeeds now may leave in the
\* dictionaries, one result per order in which the server may list.
Reconciled ==
    {LoadLoop(CHOOSE order \in Perms(nb_vers_keys(listing)) : TRUE, listing,
              LoadStart.mapping, LoadStart.shock_map) :
        listing \in Listings(Listed, 0)}

\* The manager has loaded, and every load that succeeds now would leave
\* the dictionaries as they are.
InSync ==
    /\ has_own[1]
    /\ \A r \in Reconciled :
          /\ r.exc = NoExc
          /\ r.mapping = mapping[1]
          /\ r.shock_map = shock_map(1)

\* C17: when the dictionaries are what a load would give, as they are after
\* a load that succeeded, they are so again after a write that returns
\* (no delete and no other writer in between), also when the write stamps
\* the 'created' of the node it replaces.
C17_WritesKeepInSync ==
    [][(Called("write") /\ last'.exc = NoExc /\ InSync) => InSync']_vars
\* C18: in every state self.mapping and self.shock_map have the same keys
\* and each name in self.mapping is the 'name' of the id's node; so
\* notebook_exists(id) holds exactly for the ids of self.mapping, the ids
\* list_notebooks returns.
C18_DictionariesAgree ==
    LET i == last.inst
    IN  /\ DOMAIN mapping[i] = DOMAIN shock_map(i)
        /\ \A u \in DOMAIN mapping[i] :
              /\ exists(i, u)
              /\ mapping[i][u] = shock_map(i)[u].attributes.name
\* C19: no step removes or changes a node of the store and no step adds
\* more than one; only a write adds a node, and the node it adds has type
\* 'ipynb' and as user the shock_user, or 'public' when none is configured;
\* a write that returns has added exactly one node, whose uuid is the id
\* it returns.
C19_StoreIsAppendOnly ==
    [][LET n == Len(store)
       IN  /\ Len(store') \in {n, n + 1}
           /\ SubSeq(store', 1, n) = store
           /\ Len(store') = n + 1 =>
                 /\ Called("write")
                 /\ store'[n + 1].node.attributes.type = "ipynb"
                 /\ store'[n + 1].node.attributes.user =
                       (IF shock_user # "" THEN shock_user ELSE "public")
           /\ (Called("write") /\ last'.exc = NoExc) =>
                 /\ Len(store') = n + 1
                 /\ store'[n + 1].node.attributes.uuid = last'.ret_id[1]]_vars

\* A write with no shock_user configured added a second node of a uuid,
\* next to the first.
C19_Witness ==
    /\ last.op = "write" /\ last.exc = NoExc /\ shock_user = ""
    /\ Len(store) = 2
    /\ store[1].node.attributes.uuid = last.ret_id[1]
    /\ store[2].node.attributes.uuid = last.ret_id[1]
    /\ store[2].node.attributes.user = "public"

====
